---- MODULE Spec2Model ----
(***************************************************************************)
(* Geological 3D grid tool (Geological3DGridTool, src/unnamed/part_006):   *)
(* horizon interpolation, the cooperative grid-generation loop, the grid   *)
(* compatibility check and the grid merge, together with the React state   *)
(* the handlers read and write.                                            *)
(*                                                                         *)
(* Numbers.  The program computes in IEEE doubles and stores coordinates   *)
(* rounded to two decimals.  The model is in fixed point: a coordinate is  *)
(* an integer number of ticks (1 tick = 0.01 length unit, the stored       *)
(* precision), an interpolated elevation is an integer number of "fine"    *)
(* units (FineScale per tick).  Comparisons and quotients are those of     *)
(* exact arithmetic on these integers.                                     *)
(*                                                                         *)
(* Size.  The program samples min(xRange,yRange)/45 and yields to the      *)
(* event loop every 50 positions; both numbers only set how many lattice   *)
(* positions and yield points a build has.  They appear here as the bounds *)
(* SamplingDivisor and YieldEvery, scaled down so that a build has a few   *)
(* yield points and a grid a few columns of cells.                         *)
(***************************************************************************)
EXTENDS Integers, Sequences, FiniteSets, TLC

VARIABLES
    grids,          \* useState([]): the grid registry, in insertion order
    activeGridId,   \* useState(null)
    horizonData,    \* useState([]): uploaded / generated horizons
    numLayers,      \* useState(5)
    isGenerating,   \* useState(false)
    selectedGrids,  \* useState(new Set()): a JS Set, kept in insertion order
    mergeDirection, \* useState('vertical')
    builds,         \* suspended generateGeologicalGrid invocations (closures at a yield point)
    now,            \* the value the last Date.now() call returned
    lastAlert,      \* text of the last alert() shown
    alertParity,    \* number of alert() calls so far, modulo 2
    crashed,        \* a render threw: React unmounted the component tree
    checkResult,    \* the value returned by the last canCombineGrids call made by a handler or a render
    faultData,      \* useState([]): uploaded / generated fault files
    lastCall,       \* the last direct call of an interpolation or fault-influence function, with the value it returned
    localStorage    \* window.localStorage: the saved projects and the project index

\* the state the handlers of the grid registry do not write
aside == << faultData, lastCall, localStorage >>

vars == << grids, activeGridId, horizonData, numLayers, isGenerating,
           selectedGrids, mergeDirection, builds, now, lastAlert,
           alertParity, crashed, checkResult, aside >>

----------------------------------------------------------------------------
(* Bounds of the model *)

\* lattice intervals along the shorter side of the bounding box (45 in the source)
SamplingDivisor == 1
\* lattice positions between two yields to the event loop (50 in the source)
YieldEvery == 2
\* grids in the registry, counting builds in flight
MaxGrids == 3
\* largest value of Date.now()
MaxClock == 1
\* horizons held in horizonData
MaxHorizons == 2
\* grids in the registry the compatibility check is applied to (CheckSpec)
MaxCheckGrids == 5
\* grids in the registry of SimilaritySpec
MaxSimilarGrids == 3
\* grids in the registry a merge is made from (MergeSpec)
MaxMergeSources == 3
\* fault files held in faultData
MaxFaults == 2
\* project ids the storage may hold
MaxProjects == 2
\* history entries written for one project id
MaxHistory == 3

----------------------------------------------------------------------------
(* Program constants *)

\* Math.round(v * 100) / 100: stored coordinates have two decimals
TicksPerUnit == 100
\* .slice(0, Math.min(6, points.length))
KNearest == 6
\* const separation = 50
Separation == 50
\* useState(5)
DefaultLayers == 5
\* compatibilityScore: Math.round(100 - (details.length * 20))
ScorePerDetail == 20
\* if (maxLayerDiff > 5)
MaxLayerDiff == 5

\* resolution of an interpolated elevation, in parts of a tick
FineScale == TicksPerUnit

\* grids.find(...) === undefined
NoGrid == [id |-> 0 - 1]
\* null (activeGridId), undefined (a field a cell does not have)
Null == 0 - 1

----------------------------------------------------------------------------
(* Arithmetic helpers *)

Abs(a) == IF a < 0 THEN -a ELSE a
Min2(a, b) == IF a <= b THEN a ELSE b
Max2(a, b) == IF a >= b THEN a ELSE b

\* Math.round(n / d) for d > 0: the nearest integer, halves towards +infinity
RoundDiv(n, d) == (2 * n + d) \div (2 * d)

RECURSIVE Gcd(_, _)
Gcd(a, b) == IF b = 0 THEN a ELSE Gcd(b, a % b)

Lcm(a, b) == (a \div Gcd(a, b)) * b

RECURSIVE SeqSum(_)
SeqSum(s) == IF s = << >> THEN 0 ELSE Head(s) + SeqSum(Tail(s))

Range(s) == {s[i] : i \in 1..Len(s)}

SetMin(S) == CHOOSE m \in S : \A e \in S : m <= e
SetMax(S) == CHOOSE m \in S : \A e \in S : m >= e

\* Math.min(...s), Math.max(...s) of a non-empty list
SeqMin(s) == SetMin(Range(s))
SeqMax(s) == SetMax(Range(s))

----------------------------------------------------------------------------
(* Input data: the horizons a user can upload and the demo horizons.        *)
(* A point is [x, y, z] in ticks.  The boxes are SamplingDivisor units     *)
(* wide, so that the sampling spacing is a whole number of ticks.          *)

Side == SamplingDivisor * TicksPerUnit

Corners(x0, y0, side, zs) ==
    << [x |-> x0,        y |-> y0,        z |-> zs[1]],
       [x |-> x0 + side, y |-> y0,        z |-> zs[2]],
       [x |-> x0,        y |-> y0 + side, z |-> zs[3]],
       [x |-> x0 + side, y |-> y0 + side, z |-> zs[4]] >>

\* a flat top surface over the box (0,0)-(Side,Side), and a tilted base below
\* it sampled at three of the four corners
HTop    == Corners(0, 0, Side, <<600, 600, 600, 600>>)
HTopLow == Corners(0, 0, Side, <<562, 562, 562, 562>>)
HBase   == SubSeq(Corners(0, 0, Side, <<200, 200, 240, 240>>), 1, 3)
\* two samples sharing one x value
HLine   == << [x |-> 0, y |-> 0, z |-> 600], [x |-> 0, y |-> Side, z |-> 600] >>

\* four samples at the corners of the rectangle (x0,y0)-(x0+w,y0+h)
Rectangle(x0, y0, w, h, zs) ==
    << [x |-> x0,     y |-> y0,     z |-> zs[1]],
       [x |-> x0 + w, y |-> y0,     z |-> zs[2]],
       [x |-> x0,     y |-> y0 + h, z |-> zs[3]],
       [x |-> x0 + w, y |-> y0 + h, z |-> zs[4]] >>

\* flat tops reaching one tenth and one fifth of Side further in x than HTop
HTopWider  == Rectangle(0, 0, Side + Side \div 10, Side, <<600, 600, 600, 600>>)
HTopWidest == Rectangle(0, 0, Side + Side \div 5, Side, <<600, 600, 600, 600>>)

\* the demo surfaces moved one twentieth of Side along x
HTopShifted  == Corners(Side \div 20, 0, Side, <<600, 600, 600, 600>>)
HBaseShifted == SubSeq(Corners(Side \div 20, 0, Side, <<200, 200, 240, 240>>), 1, 3)

\* a top surface that is 0.03 above the base at (0,0) and below it at (0,Side)
HCross == Corners(0, 0, Side, <<203, 600, 200, 600>>)

\* a flat slab: top at 10.00 and base at 9.00 over the box (0,0)-(Side,Side)
HSlabTop  == Corners(0, 0, Side, <<1000, 1000, 1000, 1000>>)
HSlabBase == Corners(0, 0, Side, <<900, 900, 900, 900>>)

\* two samples at one location, with different elevations
HTwin == << [x |-> 0, y |-> 0, z |-> 600], [x |-> 0, y |-> 0, z |-> 200],
            [x |-> Side, y |-> Side, z |-> 400] >>

\* Fault files.  A fault point at distance dx along x from the origin, at
\* the elevation 6.00 of the top surface
FaultAt(dx, seg) == [x |-> dx, y |-> 0, z |-> 600, segId |-> seg]

\* fault files with a segment column: points at 0 and 30 units (segment 1),
\* at 50 units (segment 2), at 90 units (segment 3), at 130 units
\* (segment 4), and at 10 units with segment 0
FMain   == << FaultAt(0, 1), FaultAt(30 * TicksPerUnit, 1) >>
FSecond == << FaultAt(50 * TicksPerUnit, 2) >>
FFar    == << FaultAt(90 * TicksPerUnit, 3) >>
FBeyond == << FaultAt(130 * TicksPerUnit, 4) >>
FZero   == << FaultAt(10 * TicksPerUnit, 0) >>
\* a fault file with the columns x, y, z only: its points have no segId
FPlain  == << FaultAt(20 * TicksPerUnit, Null) >>

\* handleFileUpload(event, 'fault'): the files a user may choose
FaultLibrary == { FMain, FSecond, FFar, FBeyond, FZero, FPlain }
\* generateRealisticFaults: the main and the secondary fault
DemoFaults == << FMain, FSecond >>

\* handleFileUpload: the files a user may choose
UploadLibrary == { HTopLow, HBase, HLine }
\* generateRealisticHorizons: one draw of its random surfaces
DemoHorizons == << HTop, HBase >>

----------------------------------------------------------------------------
(* geologicalInterpolation(x, y, points): inverse-distance weighting over   *)
(* the KNearest nearest samples.  Distances are compared through their     *)
(* squares (ticks^2); the result is in fine units.                         *)

Dist2(x, y, p) == (x - p.x) * (x - p.x) + (y - p.y) * (y - p.y)

\* index of the sample .sort((a, b) => a.distance - b.distance) puts first
\* among idxs: the smallest distance, the earliest sample on a tie (stable sort)
NearestOf(x, y, points, idxs) ==
    CHOOSE i \in idxs : \A j \in idxs :
        \/ Dist2(x, y, points[i]) < Dist2(x, y, points[j])
        \/ (Dist2(x, y, points[i]) = Dist2(x, y, points[j]) /\ i <= j)

RECURSIVE NearestPoints(_, _, _, _, _)
NearestPoints(x, y, points, idxs, k) ==
    IF k = 0 \/ idxs = {} THEN << >>
    ELSE LET i == NearestOf(x, y, points, idxs)
         IN  << points[i] >> \o NearestPoints(x, y, points, idxs \ {i}, k - 1)

\* Math.pow(Math.max(point.distance, 0.1), 2), in ticks^2
FlooredDist2(x, y, p) ==
    Max2(Dist2(x, y, p), (TicksPerUnit \div 10) * (TicksPerUnit \div 10))

RECURSIVE LcmOf(_)
LcmOf(s) == IF s = << >> THEN 1 ELSE Lcm(Head(s), LcmOf(Tail(s)))

RECURSIVE GcdOf(_)
GcdOf(s) == IF s = << >> THEN 0 ELSE Gcd(Head(s), GcdOf(Tail(s)))

\* sum(w * (z - z0)) / sum(w), in fine units
MeanAbove(nearestPoints, weight, z0) ==
    RoundDiv(SeqSum([i \in 1..Len(weight) |-> (nearestPoints[i].z - z0) * weight[i]])
               * FineScale,
             SeqSum(weight))

\* valueSum / weightSum, for the weights given.  The quotient is taken of
\* the elevations above the lowest of them, z0: sum(w * z) / sum(w) =
\* z0 + sum(w * (z - z0)) / sum(w), which keeps the products small.
WeightedMean(nearestPoints, weight) ==
    LET z0 == SeqMin([i \in 1..Len(nearestPoints) |-> nearestPoints[i].z])
    IN  z0 * FineScale + MeanAbove(nearestPoints, weight, z0)

\* weight = 1 / d^2, for d2 the squared distances divided by their gcd:
\* the weights are scaled by the least common multiple m of the d2
ScaledWeights(d2, m) == [i \in 1..Len(d2) |-> m \div d2[i]]

ReducedDist2(d2, g) == [i \in 1..Len(d2) |-> d2[i] \div g]

InverseDistanceMean(nearestPoints, r2) ==
    WeightedMean(nearestPoints, ScaledWeights(r2, LcmOf(r2)))

InterpolateNearest(x, y, nearestPoints, d2) ==
    IF Dist2(x, y, nearestPoints[1]) < TicksPerUnit * TicksPerUnit
    THEN nearestPoints[1].z * FineScale
    ELSE InverseDistanceMean(nearestPoints, ReducedDist2(d2, GcdOf(d2)))

InterpolateOver(x, y, nearestPoints) ==
    InterpolateNearest(x, y, nearestPoints,
        [i \in 1..Len(nearestPoints) |-> FlooredDist2(x, y, nearestPoints[i])])

geologicalInterpolation(x, y, points) ==
    IF Len(points) = 0 THEN 0
    ELSE InterpolateOver(x, y,
            NearestPoints(x, y, points, 1..Len(points), Min2(KNearest, Len(points))))

----------------------------------------------------------------------------
(* geologicalInterpolation(x, y, points, method = 'kriging'): the copy of   *)
(* the function exported by the utilities (src/unnamed/part_002) and kept   *)
(* by the older component (src/unnamed/part_005).  It weights the eight    *)
(* nearest samples by 1 / max(distance, 1)^2 and has no shortcut for a     *)
(* sample at the query location.                                           *)

\* .slice(0, Math.min(8, points.length))
KNearestKriging == 8

\* Math.max(point.distance, 1) ** 2, in ticks^2
KrigingDist2(x, y, p) == Max2(Dist2(x, y, p), TicksPerUnit * TicksPerUnit)

KrigingMean(nearestPoints, d2) ==
    InverseDistanceMean(nearestPoints, ReducedDist2(d2, GcdOf(d2)))

KrigingOver(x, y, nearestPoints) ==
    KrigingMean(nearestPoints,
        [i \in 1..Len(nearestPoints) |-> KrigingDist2(x, y, nearestPoints[i])])

geologicalInterpolationKriging(x, y, points) ==
    IF Len(points) = 0 THEN 0
    ELSE KrigingOver(x, y,
            NearestPoints(x, y, points, 1..Len(points),
                          Min2(KNearestKriging, Len(points))))

----------------------------------------------------------------------------
(* calculateAdvancedFaultInfluence(x, y, z, faults, influenceRadius = 120). *)
(* A fault point is [x, y, z, segId] in ticks, segId = Null when the file  *)
(* had no segment column.  An influence is a fixed-point number,           *)
(* InfluenceScale standing for 1.  Math.exp is computed as                 *)
(* exp(-u) = (exp(-u/16))^16 with the Taylor polynomial of degree 4 for    *)
(* exp(-u/16); over the radius the result is within 0.0015 of the          *)
(* exponential.  Math.random() is an argument of the model's function: a   *)
(* number of hundredths in 0..99.                                          *)

InfluenceScale == TicksPerUnit * TicksPerUnit

\* influenceRadius = 120
InfluenceRadius == 120
\* const influence = Math.exp(-distance / (influenceRadius * 0.25)): the
\* decay length, in ticks
DecayLength == (InfluenceRadius * TicksPerUnit) \div 4
\* faultFlag: maxInfluence > 0.08
FlagThreshold == (8 * InfluenceScale) \div 100
\* displacement: totalInfluence * 60 * (Math.random() - 0.5)
DisplacementAmplitude == 60

\* all the points of all the fault files, in the order forEach visits them
RECURSIVE FaultPoints(_)
FaultPoints(faults) ==
    IF faults = << >> THEN << >> ELSE Head(faults) \o FaultPoints(Tail(faults))

\* (x - point.x) ** 2 + (y - point.y) ** 2 + (z - point.z) ** 2, in ticks^2
Dist3(x, y, z, point) ==
    (x - point.x) * (x - point.x) + (y - point.y) * (y - point.y)
      + (z - point.z) * (z - point.z)

\* Math.sqrt, to the tick below: the r in lo..hi with r^2 <= n < (r + 1)^2
RECURSIVE SqrtBetween(_, _, _)
SqrtBetween(n, lo, hi) ==
    IF lo = hi THEN lo
    ELSE IF ((lo + hi + 1) \div 2) * ((lo + hi + 1) \div 2) <= n
         THEN SqrtBetween(n, (lo + hi + 1) \div 2, hi)
         ELSE SqrtBetween(n, lo, (lo + hi + 1) \div 2 - 1)

Sqrt(n) == SqrtBetween(n, 0, 2 * InfluenceRadius * TicksPerUnit)

\* 1 - v + v^2/2 - v^3/6 + v^4/24, for v in fixed point
ExpTaylor(v) ==
    InfluenceScale - v + RoundDiv(v * v, 2 * InfluenceScale)
      - RoundDiv(RoundDiv(v * v, InfluenceScale) * v, 6 * InfluenceScale)
      + RoundDiv(RoundDiv(v * v, InfluenceScale) * RoundDiv(v * v, InfluenceScale),
                 24 * InfluenceScale)

Squared(e) == RoundDiv(e * e, InfluenceScale)

\* Math.exp(-distance / (influenceRadius * 0.25)), distance in ticks
Influence(distance) ==
    Squared(Squared(Squared(Squared(
        ExpTaylor(RoundDiv(distance * InfluenceScale, 16 * DecayLength))))))

\* dominantFault = point.segId || 1
SegmentOf(point) == IF point.segId = Null \/ point.segId = 0 THEN 1 ELSE point.segId

\* a loop body that takes every point within the radius as the dominant one
AccumulatedByLatest(acc, point, inf) ==
    [ totalInfluence |-> acc.totalInfluence + inf,
      maxInfluence   |-> IF inf > acc.maxInfluence THEN inf ELSE acc.maxInfluence,
      dominantFault  |-> SegmentOf(point) ]

\* the body of "if (distance < influenceRadius)" for a point of influence inf
Accumulated(acc, point, inf) ==
    [ totalInfluence |-> acc.totalInfluence + inf,
      maxInfluence   |-> IF inf > acc.maxInfluence THEN inf ELSE acc.maxInfluence,
      dominantFault  |-> IF inf > acc.maxInfluence THEN SegmentOf(point)
                                                   ELSE acc.dominantFault ]

\* one iteration of fault.points.forEach
InfluenceOfPoint(acc, point, d2) ==
    IF d2 < InfluenceRadius * TicksPerUnit * InfluenceRadius * TicksPerUnit
    THEN Accumulated(acc, point, Influence(Sqrt(d2)))
    ELSE acc

RECURSIVE InfluenceOver(_, _, _, _, _)
InfluenceOver(x, y, z, points, acc) ==
    IF points = << >> THEN acc
    ELSE InfluenceOver(x, y, z, Tail(points),
                       InfluenceOfPoint(acc, Head(points), Dist3(x, y, z, Head(points))))

\* return { influence: Math.min(totalInfluence, 1),
\*          faultFlag: maxInfluence > 0.08 ? dominantFault : 0,
\*          displacement: totalInfluence * 60 * (Math.random() - 0.5) }
\* displacement is in ticks; random is Math.random() in hundredths
FaultInfo(acc, random) ==
    [ influence    |-> Min2(acc.totalInfluence, InfluenceScale),
      faultFlag    |-> IF acc.maxInfluence > FlagThreshold THEN acc.dominantFault ELSE 0,
      displacement |-> RoundDiv(acc.totalInfluence * DisplacementAmplitude * (random - 50),
                                InfluenceScale) ]

calculateAdvancedFaultInfluence(x, y, z, faults, random) ==
    FaultInfo(InfluenceOver(x, y, z, FaultPoints(faults),
                            [totalInfluence |-> 0, maxInfluence |-> 0, dominantFault |-> 0]),
              random)

----------------------------------------------------------------------------
(* generateGeologicalGrid: the sampling loop.  A build in flight is a      *)
(* record holding what the closure captured (top, bottom, nl) and the      *)
(* locals of the loop.  The fault displacement added to a cell's z,        *)
(* totalInfluence * 60 * (Math.random() - 0.5), is 0 when no fault file is *)
(* loaded and is taken at the draw Math.random() = 0.5 otherwise: it is 0  *)
(* throughout.  The other random cell properties (porosity, permeability,  *)
(* wellPath) are not kept.                                                 *)

\* const bounds = { xMin: Math.min(...allPoints.map(p => p.x)), ... }
Envelope(xs, ys, zs) ==
    [xMin |-> SeqMin(xs), xMax |-> SeqMax(xs),
     yMin |-> SeqMin(ys), yMax |-> SeqMax(ys),
     zMin |-> SeqMin(zs), zMax |-> SeqMax(zs)]

BoundsOf(allPoints) ==
    Envelope([i \in 1..Len(allPoints) |-> allPoints[i].x],
             [i \in 1..Len(allPoints) |-> allPoints[i].y],
             [i \in 1..Len(allPoints) |-> allPoints[i].z])

\* const gridSpacing = Math.min((xMax - xMin) / 45, (yMax - yMin) / 45)
GridSpacing(bounds) ==
    Min2((bounds.xMax - bounds.xMin) \div SamplingDivisor,
         (bounds.yMax - bounds.yMin) \div SamplingDivisor)

\* Math.sin(x * 0.0008) * Math.cos(y * 0.0006) * 12, in fine units, to first
\* order in x and y (the boxes of this model are a few units wide, where
\* sin t = t and cos t = 1 hold to one part in 10^5)
StructuralDip(x, y) == RoundDiv(12 * 8 * x * FineScale, 10000)

\* a cell whose layerRatio is layerIdx / (numLayers + 2)
CellByLayerCount(x, y, bottomZ, thickness, nl, gridSpacing, layerIdx) ==
    [ x      |-> x,
      y      |-> y,
      z      |-> RoundDiv((nl + 2) * bottomZ
                            + layerIdx * (thickness + StructuralDip(x, y)),
                          (nl + 2) * FineScale),
      layer  |-> layerIdx,
      bulkVolume |-> RoundDiv(gridSpacing * gridSpacing * thickness,
                              (nl + 1) * TicksPerUnit * TicksPerUnit * FineScale),
      combinedLayer |-> Null,
      gridIndex     |-> Null ]

\* one cell of the column at (x, y): the object pushed on grid
Cell(x, y, bottomZ, thickness, nl, gridSpacing, layerIdx) ==
    [ x      |-> x,
      y      |-> y,
      \* z = bottomZ + layerRatio * thickness + structuralDip * layerRatio,
      \* layerRatio = layerIdx / (numLayers + 1); Math.round(z * 100) / 100
      z      |-> RoundDiv((nl + 1) * bottomZ
                            + layerIdx * (thickness + StructuralDip(x, y)),
                          (nl + 1) * FineScale),
      layer  |-> layerIdx,
      \* Math.round(cellVolume * 100) / 100, in hundredths of a cubic unit
      bulkVolume |-> RoundDiv(gridSpacing * gridSpacing * thickness,
                              (nl + 1) * TicksPerUnit * TicksPerUnit * FineScale),
      combinedLayer |-> Null,
      gridIndex     |-> Null ]

\* cellVolume = gridSpacing * gridSpacing * layerThickness, in 1/FineScale^2
\* of a cubic unit
CellVolume(thickness, nl, gridSpacing) ==
    RoundDiv(gridSpacing * gridSpacing * thickness,
             (nl + 1) * TicksPerUnit * TicksPerUnit)

\* a column that stops one layer below the top surface
AddColumnBelowTop(t, topZ, bottomZ) ==
    IF topZ <= bottomZ THEN t
    ELSE [t EXCEPT
           !.points = @ \o [k \in 1..(t.nl + 1) |->
                              Cell(t.x, t.y, bottomZ, topZ - bottomZ, t.nl,
                                   t.gridSpacing, k - 1)],
           !.totalVolume = @ + (t.nl + 1) * CellVolume(topZ - bottomZ, t.nl, t.gridSpacing),
           !.pointCount = @ + (t.nl + 1)]

\* the column between bottomZ and topZ: numLayers + 2 cells, or none
\* (if (topZ <= bottomZ) continue)
AddColumn(t, topZ, bottomZ) ==
    IF topZ <= bottomZ THEN t
    ELSE [t EXCEPT
           !.points = @ \o [k \in 1..(t.nl + 2) |->
                              Cell(t.x, t.y, bottomZ, topZ - bottomZ, t.nl,
                                   t.gridSpacing, k - 1)],
           !.totalVolume = @ + (t.nl + 2) * CellVolume(topZ - bottomZ, t.nl, t.gridSpacing),
           !.pointCount = @ + (t.nl + 2)]

\* the body of the double loop at position (t.x, t.y), after the yield
ProcessPosition(t) ==
    AddColumn(t, geologicalInterpolation(t.x, t.y, t.top),
                 geologicalInterpolation(t.x, t.y, t.bottom))

\* y += gridSpacing
NextPosition(t) == [t EXCEPT !.y = @ + t.gridSpacing]

\* Runs the double loop from the head of the inner loop to the next
\* "await new Promise(resolve => setTimeout(resolve, 1))" or to the end.
\* currentStep is only read modulo the yield interval and is kept modulo
\* twice that interval.
RECURSIVE RunLoop(_)
RunLoop(t) ==
    IF t.x > t.bounds.xMax THEN [t EXCEPT !.pc = "done"]
    ELSE IF t.y > t.bounds.yMax
    THEN RunLoop([t EXCEPT !.x = @ + t.gridSpacing, !.y = t.bounds.yMin])
    ELSE LET s == [t EXCEPT !.currentStep = (@ + 1) % (2 * YieldEvery)]
         IN  IF s.currentStep % YieldEvery = 0
             THEN [s EXCEPT !.pc = "yield"]
             ELSE RunLoop(NextPosition(ProcessPosition(s)))

\* the timer fired: the loop goes on from the position it yielded at
ResumeLoop(t) == RunLoop(NextPosition(ProcessPosition(t)))

\* the closure as it starts: the state it captures and its locals
NewBuild(hd, nl) ==
    LET topHorizon    == hd[1]
        bottomHorizon == hd[2]
        bounds        == BoundsOf(topHorizon \o bottomHorizon)
    IN  [ top |-> topHorizon, bottom |-> bottomHorizon, nl |-> nl,
          bounds |-> bounds, gridSpacing |-> GridSpacing(bounds),
          x |-> bounds.xMin, y |-> bounds.yMin, currentStep |-> 0,
          points |-> << >>, totalVolume |-> 0, pointCount |-> 0,
          pc |-> "run" ]

\* the sampling positions of a build, in the order the loops visit them:
\* x from xMin while x <= xMax, and for each x, y from yMin while y <= yMax
SamplingPositions(bounds, gridSpacing) ==
    LET nx == (bounds.xMax - bounds.xMin) \div gridSpacing + 1
        ny == (bounds.yMax - bounds.yMin) \div gridSpacing + 1
    IN  [k \in 1..(nx * ny) |->
            [x |-> bounds.xMin + ((k - 1) \div ny) * gridSpacing,
             y |-> bounds.yMin + ((k - 1) % ny) * gridSpacing]]

\* a grid whose pointCount counts the cells of every sampling position,
\* skipped or not
NewGridCountingSkipped(t, id) ==
    [ id          |-> id,
      points      |-> t.points,
      totalVolume |-> RoundDiv(t.totalVolume, FineScale * FineScale),
      layerCount  |-> t.nl + 2,
      pointCount  |-> Len(SamplingPositions(t.bounds, t.gridSpacing)) * (t.nl + 2),
      bounds      |-> t.bounds,
      isCombined  |-> FALSE ]

\* const newGrid = { id: Date.now().toString(), points: grid, ... }
NewGrid(t, id) ==
    [ id          |-> id,
      points      |-> t.points,
      totalVolume |-> RoundDiv(t.totalVolume, FineScale * FineScale),
      layerCount  |-> t.nl + 2,
      pointCount  |-> t.pointCount,
      bounds      |-> t.bounds,
      isCombined  |-> FALSE ]

----------------------------------------------------------------------------
(* canCombineGrids(gridIds): the compatibility check *)

\* grids.find(g => g.id === id): the first grid with that id, or undefined
RECURSIVE Find(_, _)
Find(gs, id) ==
    IF gs = << >> THEN NoGrid
    ELSE IF Head(gs).id = id THEN Head(gs)
    ELSE Find(Tail(gs), id)

\* const selectedGridData = gridIds.map(id => grids.find(g => g.id === id))
SelectedGridData(gridIds, gs) == [i \in 1..Len(gridIds) |-> Find(gs, gridIds[i])]

\* reading .bounds of undefined: the call throws a TypeError
CheckThrows(gridIds, gs) ==
    /\ Len(gridIds) >= 2
    /\ \E i \in 1..Len(gridIds) : Find(gs, gridIds[i]) = NoGrid

\* a test that reports a difference equal to the tolerance as a mismatch
MismatchAtTolerance(firstBounds, bounds) ==
    LET xDiff == Max2(Abs(bounds.xMin - firstBounds.xMin), Abs(bounds.xMax - firstBounds.xMax))
        yDiff == Max2(Abs(bounds.yMin - firstBounds.yMin), Abs(bounds.yMax - firstBounds.yMax))
        zDiff == Max2(Abs(bounds.zMin - firstBounds.zMin), Abs(bounds.zMax - firstBounds.zMax))
    IN  \/ 10 * xDiff >= firstBounds.xMax - firstBounds.xMin
        \/ 10 * yDiff >= firstBounds.yMax - firstBounds.yMin
        \/ 10 * zDiff >= firstBounds.zMax - firstBounds.zMin

\* the test of lines 390-392 for one grid against the first grid's bounds;
\* xTolerance = (firstBounds.xMax - firstBounds.xMin) * 0.1
BoundsMismatch(firstBounds, bounds) ==
    LET xDiff == Max2(Abs(bounds.xMin - firstBounds.xMin), Abs(bounds.xMax - firstBounds.xMax))
        yDiff == Max2(Abs(bounds.yMin - firstBounds.yMin), Abs(bounds.yMax - firstBounds.yMax))
        zDiff == Max2(Abs(bounds.zMin - firstBounds.zMin), Abs(bounds.zMax - firstBounds.zMax))
    IN  \/ 10 * xDiff > firstBounds.xMax - firstBounds.xMin
        \/ 10 * yDiff > firstBounds.yMax - firstBounds.yMin
        \/ 10 * zDiff > firstBounds.zMax - firstBounds.zMin

\* details.push(`Grid "..." bounds mismatch ...`) for i = from..Len(data)
RECURSIVE BoundsDetails(_, _)
BoundsDetails(data, from) ==
    IF from > Len(data) THEN << >>
    ELSE (IF BoundsMismatch(data[1].bounds, data[from].bounds)
          THEN << "bounds mismatch" >> ELSE << >>)
         \o BoundsDetails(data, from + 1)

\* pointVariance = sum(|p - avg| / avg) / n with avg = sum(p) / n.  In exact
\* arithmetic it is sum(|n*p - S|) / (n*S); with S = 0 the program computes
\* 0/0 = NaN, and every comparison with NaN is false.
PointDeviation(pointCounts) ==
    LET n == Len(pointCounts)
        S == SeqSum(pointCounts)
    IN  SeqSum([i \in 1..n |-> Abs(n * pointCounts[i] - S)])

\* pointVariance > 0.3
PointVarianceAbove(pointCounts) ==
    LET n == Len(pointCounts)
        S == SeqSum(pointCounts)
    IN  S # 0 /\ 10 * PointDeviation(pointCounts) > 3 * n * S

\* pointVariance <= 0.3
PointVarianceWithin(pointCounts) ==
    LET n == Len(pointCounts)
        S == SeqSum(pointCounts)
    IN  S # 0 /\ 10 * PointDeviation(pointCounts) <= 3 * n * S

\* a check that refuses only the empty selection
NoGridsAtAll(gridIds) == Len(gridIds) < 1

\* if (gridIds.length < 2) return {canCombine: false, ...}
TooFewGrids(gridIds) == Len(gridIds) < 2

\* the value canCombineGrids returns; defined when it does not throw
canCombineGrids(gridIds, gs) ==
    IF TooFewGrids(gridIds)
    THEN [canCombine |-> FALSE, reason |-> "Need at least 2 grids",
          details |-> << >>, compatibilityScore |-> Null]
    ELSE
      LET selectedGridData == SelectedGridData(gridIds, gs)
          boundsDetails    == BoundsDetails(selectedGridData, 2)
          boundsCompatible == boundsDetails = << >>
          layerCounts  == [i \in 1..Len(gridIds) |-> selectedGridData[i].layerCount]
          maxLayerDiff == SeqMax(layerCounts) - SeqMin(layerCounts)
          pointCounts  == [i \in 1..Len(gridIds) |-> selectedGridData[i].pointCount]
          details ==
              boundsDetails
              \o (IF maxLayerDiff > MaxLayerDiff
                  THEN << "Layer count variation too high" >> ELSE << >>)
              \o (IF PointVarianceAbove(pointCounts)
                  THEN << "Point count variance too high" >> ELSE << >>)
          canCombine == /\ boundsCompatible
                        /\ maxLayerDiff <= MaxLayerDiff
                        /\ PointVarianceWithin(pointCounts)
      IN  [canCombine |-> canCombine,
           reason |-> IF canCombine THEN "Compatible grids"
                      ELSE "Incompatible grids - see details",
           details |-> details,
           compatibilityScore |-> 100 - Len(details) * ScorePerDetail]

----------------------------------------------------------------------------
(* combineGrids: the merge *)

\* calculateOffset(index, bounds, allBounds), index counted from 0
RECURSIVE PrecedingWidth(_, _)
PrecedingWidth(allBounds, index) ==
    IF index = 0 THEN 0
    ELSE (allBounds[index].xMax - allBounds[index].xMin)
         + PrecedingWidth(allBounds, index - 1)

\* offsets that leave the vertical separation between grids placed side by side
OffsetWithGap(index, allBounds, direction) ==
    IF direction = "vertical"
    THEN [x |-> 0, y |-> 0, z |-> index * Separation * TicksPerUnit]
    ELSE [x |-> PrecedingWidth(allBounds, index) + index * Separation * TicksPerUnit,
          y |-> 0, z |-> 0]

calculateOffset(index, allBounds, direction) ==
    IF direction = "vertical"
    THEN [x |-> 0, y |-> 0, z |-> index * Separation * TicksPerUnit]
    ELSE IF direction = "horizontal"
    THEN [x |-> PrecedingWidth(allBounds, index), y |-> 0, z |-> 0]
    ELSE [x |-> 0, y |-> 0, z |-> 0]

\* const blendedPoint = { ...point, x: point.x + offset.x, ... }
BlendedPoint(point, grid, index, offset) ==
    [point EXCEPT !.x = point.x + offset.x,
                  !.y = point.y + offset.y,
                  !.z = point.z + offset.z,
                  !.combinedLayer = point.layer + index * (grid.layerCount + 1),
                  !.gridIndex = index]

\* selectedGridData.forEach((grid, index) => grid.points.forEach(...)),
\* for the grids from..Len(data)
RECURSIVE CombinedPoints(_, _, _)
CombinedPoints(data, from, direction) ==
    IF from > Len(data) THEN << >>
    ELSE LET grid   == data[from]
             offset == calculateOffset(from - 1,
                                       [i \in 1..Len(data) |-> data[i].bounds],
                                       direction)
         IN  [k \in 1..Len(grid.points) |->
                 BlendedPoint(grid.points[k], grid, from - 1, offset)]
             \o CombinedPoints(data, from + 1, direction)

\* combinedPoints.sort((a, b) => a.z - b.z) or (a.x - b.x): a stable sort
SortKey(p, direction) == IF direction = "vertical" THEN p.z ELSE p.x

\* the place of points[i] after the sort: one more than the number of
\* points with a smaller key, or with the same key and an earlier place
PlaceOf(key) ==
    [i \in 1..Len(key) |->
        1 + Cardinality({j \in 1..Len(key) :
                key[j] < key[i] \/ (key[j] = key[i] /\ j < i)})]

Permuted(points, place) ==
    [k \in 1..Len(points) |-> points[CHOOSE i \in 1..Len(points) : place[i] = k]]

\* (the concatenations with the empty sequence make TLC tabulate the keys
\* and the places once instead of recomputing them at every use)
SortPoints(points, direction) ==
    Permuted(points,
             PlaceOf([i \in 1..Len(points) |-> SortKey(points[i], direction)] \o << >>)
               \o << >>)

\* totalVolume += grid.totalVolume, over the selected grids
\* a merge that keeps the volume of its first source only
VolumeOfFirst(data) == data[1].totalVolume

RECURSIVE TotalVolume(_)
TotalVolume(data) ==
    IF data = << >> THEN 0 ELSE Head(data).totalVolume + TotalVolume(Tail(data))

\* totalPointCount += grid.pointCount
RECURSIVE TotalPointCount(_)
TotalPointCount(data) ==
    IF data = << >> THEN 0 ELSE Head(data).pointCount + TotalPointCount(Tail(data))

\* const combinedGrid = { id: Date.now().toString(), ... }
CombinedGridOf(data, combinedPoints, id, direction) ==
    [ id          |-> id,
      points      |-> combinedPoints,
      totalVolume |-> TotalVolume(data),
      layerCount  |-> SeqMax([i \in 1..Len(data) |-> data[i].layerCount]) * Len(data),
      pointCount  |-> TotalPointCount(data),
      bounds      |-> BoundsOf(combinedPoints),
      isCombined  |-> TRUE,
      mergeType   |-> direction ]

CombinedGrid(data, direction, id) ==
    CombinedGridOf(data, SortPoints(CombinedPoints(data, 1, direction), direction),
                   id, direction)

----------------------------------------------------------------------------
(* The component: its state after mounting, its render, its handlers *)

\* no canCombineGrids call has been made (the merge panel is not rendered)
NoCheck == [canCombine |-> FALSE, reason |-> "", details |-> << >>,
            compatibilityScore |-> Null]

\* values the "Layers" slider (min 1, max 25) is moved to
SliderValues == {1}

MergeDirections == {"vertical", "horizontal"}

GridIds(gs) == {gs[i].id : i \in 1..Len(gs)}

\* no direct call has been made
NoCall == [fn |-> ""]

\* localStorage without a project and without a project index
NoProjects == [projects |-> << >>, index |-> << >>, history |-> << >>]

\* useState([]) of faultData; nothing called, nothing saved
AsideInit ==
    /\ faultData = << >>
    /\ lastCall = NoCall
    /\ localStorage = NoProjects

Init ==
    /\ grids = << >>
    /\ activeGridId = Null
    /\ horizonData = << >>
    /\ numLayers = DefaultLayers
    /\ isGenerating = FALSE
    /\ selectedGrids = << >>
    /\ mergeDirection = "vertical"
    /\ builds = << >>
    /\ now = 0
    /\ lastAlert = ""
    /\ alertParity = 0
    /\ crashed = FALSE
    /\ checkResult = NoCheck
    /\ AsideInit

\* The merge panel, rendered when selectedGrids.size > 1, calls
\* canCombineGrids(Array.from(selectedGrids)); a TypeError thrown while
\* rendering unmounts the component (App has no error boundary).
RenderThrows(gs, sel) == CheckThrows(sel, gs)

RenderCheck(gs, sel) ==
    IF Len(sel) > 1 /\ ~CheckThrows(sel, gs) THEN canCombineGrids(sel, gs) ELSE NoCheck

\* the render that follows a state update
Render(gs, sel) ==
    /\ crashed' = RenderThrows(gs, sel)
    /\ checkResult' = RenderCheck(gs, sel)

\* alert(msg)
Alert(msg) ==
    /\ lastAlert' = msg
    /\ alertParity' = 1 - alertParity

NoAlert == UNCHANGED << lastAlert, alertParity >>

\* room for one more grid in the registry (bound of the model)
RoomForGrid == Len(grids) + Len(builds) < MaxGrids

\* Date.now(): the millisecond of the last call, or a later one
ClockReadings == {now} \cup (IF now < MaxClock THEN {now + 1} ELSE {})

\* reader.onload of handleFileUpload(event, 'horizon')
handleFileUpload(h) ==
    /\ ~crashed
    /\ Len(horizonData) < MaxHorizons
    /\ horizonData' = Append(horizonData, h)
    /\ UNCHANGED << aside, grids, activeGridId, numLayers, isGenerating, selectedGrids,
                           mergeDirection, builds, now, lastAlert, alertParity,
                           crashed, checkResult >>

\* "Demo Horizons"
generateRealisticHorizons ==
    /\ ~crashed
    /\ horizonData' = DemoHorizons
    /\ UNCHANGED << aside, grids, activeGridId, numLayers, isGenerating, selectedGrids,
                           mergeDirection, builds, now, lastAlert, alertParity,
                           crashed, checkResult >>

\* onChange of the "Layers" slider
setNumLayers(n) ==
    /\ ~crashed
    /\ numLayers' = n
    /\ UNCHANGED << aside, grids, activeGridId, horizonData, isGenerating, selectedGrids,
                           mergeDirection, builds, now, lastAlert, alertParity,
                           crashed, checkResult >>

\* a registry update that stores the new grid in the place of the oldest one
StoreOverFirstGrid(newGrid) ==
    /\ now' = newGrid.id
    /\ grids' = << newGrid >> \o SubSeq(grids, 2, Len(grids))
    /\ Render(<< newGrid >> \o SubSeq(grids, 2, Len(grids)), selectedGrids')

\* setGrids(prev => [...prev, newGrid]); setActiveGridId(newGrid.id);
\* finally { setIsGenerating(false) }
AddGrid(newGrid) ==
    /\ now' = newGrid.id
    /\ grids' = Append(grids, newGrid)
    /\ Render(Append(grids, newGrid), selectedGrids')

RegisterGrid(t) ==
    \E id \in ClockReadings :
        /\ UNCHANGED selectedGrids
        /\ AddGrid(NewGrid(t, id))
        /\ activeGridId' = id
        /\ isGenerating' = FALSE

\* generateGeologicalGrid, from the call to its first await (or to its end)
BuildStarts(t) ==
    /\ IF t.pc = "done"
       THEN RegisterGrid(t) /\ UNCHANGED builds
       ELSE /\ isGenerating' = TRUE
            /\ builds' = Append(builds, t)
            /\ UNCHANGED << grids, activeGridId, selectedGrids, now, crashed, checkResult >>
    /\ NoAlert
    /\ UNCHANGED << aside, horizonData, numLayers, mergeDirection >>

\* a build that raises isGenerating before it looks at its input
RefuseBuildWhileBusy ==
    /\ Alert("Please provide at least two horizon surfaces (top and bottom)")
    /\ isGenerating' = TRUE
    /\ UNCHANGED << aside, grids, activeGridId, horizonData, numLayers,
                           selectedGrids, mergeDirection, builds, now, crashed,
                           checkResult >>

\* if (horizonData.length < 2) { alert(...); return; }
RefuseBuild ==
    /\ Alert("Please provide at least two horizon surfaces (top and bottom)")
    /\ UNCHANGED << aside, grids, activeGridId, horizonData, numLayers, isGenerating,
                           selectedGrids, mergeDirection, builds, now, crashed,
                           checkResult >>

generateGeologicalGrid ==
    IF Len(horizonData) < 2
    THEN RefuseBuild
    ELSE BuildStarts(RunLoop(NewBuild(horizonData, numLayers)))

\* a button disabled by the number of horizons only
DisabledByInputOnly == Len(horizonData) < 2

\* disabled={isGenerating || horizonData.length < 2}
GenerateDisabled == isGenerating \/ Len(horizonData) < 2

\* a click on "Generate Grid"
ClickGenerate ==
    /\ ~crashed
    /\ ~GenerateDisabled
    /\ RoomForGrid
    /\ generateGeologicalGrid

RemoveAt(s, i) == SubSeq(s, 1, i - 1) \o SubSeq(s, i + 1, Len(s))

\* the 1 ms timer of a suspended build fires.  After a crash the component
\* is unmounted and the state updates of a finishing build are dropped.
BuildContinues(i, t) ==
    /\ IF t.pc = "done"
       THEN /\ builds' = RemoveAt(builds, i)
            /\ IF crashed
               THEN UNCHANGED << grids, activeGridId, isGenerating, selectedGrids,
                                 now, crashed, checkResult >>
               ELSE RegisterGrid(t)
       ELSE /\ builds' = [builds EXCEPT ![i] = t]
            /\ UNCHANGED << grids, activeGridId, isGenerating, selectedGrids,
                            now, crashed, checkResult >>
    /\ NoAlert
    /\ UNCHANGED << aside, horizonData, numLayers, mergeDirection >>

\* the horizons loaded when the builds of BuildSpec start
BuildInputs ==
    { << HTop, HBase >>, << HTopLow, HBase >>, << HCross, HBase >>,
      << HBase, HBase >>, << HSlabTop, HSlabBase >> }

\* the pairs (top, bottom) = (horizonData[0], horizonData[1]) a build can
\* start from, and the values numLayers can have
HorizonPairs == (UploadLibrary \X UploadLibrary) \cup { DemoHorizons } \cup BuildInputs
LayerChoices == SliderValues \cup { DefaultLayers, 3 }

\* every build record a build can be suspended in
RECURSIVE ResumedFrom(_)
ResumedFrom(S) ==
    LET T == S \cup { ResumeLoop(t) : t \in { u \in S : u.pc = "yield" } }
    IN  IF T = S THEN S ELSE ResumedFrom(T)

SuspendedBuilds ==
    { t \in ResumedFrom({ RunLoop(NewBuild(hd, nl)) :
                             hd \in HorizonPairs, nl \in LayerChoices }) :
        t.pc = "yield" }

\* ResumeLoop, tabulated over the suspended builds
ResumeTable == [t \in SuspendedBuilds |-> ResumeLoop(t)]

BuildResume(i) == BuildContinues(i, ResumeTable[builds[i]])

\* newSet.has(id) ? newSet.delete(id) : newSet.add(id)
Toggled(sel, id) ==
    IF \E k \in 1..Len(sel) : sel[k] = id
    THEN SelectSeq(sel, LAMBDA e : e # id)
    ELSE Append(sel, id)

\* onChange of a grid row's checkbox
ToggleSelect(id) ==
    /\ ~crashed
    /\ selectedGrids' = Toggled(selectedGrids, id)
    /\ Render(grids, selectedGrids')
    /\ UNCHANGED << aside, grids, activeGridId, horizonData, numLayers, isGenerating,
                           mergeDirection, builds, now, lastAlert, alertParity >>

\* "Clear", in the merge panel
ClearSelection ==
    /\ ~crashed
    /\ Len(selectedGrids) > 1
    /\ selectedGrids' = << >>
    /\ Render(grids, << >>)
    /\ UNCHANGED << aside, grids, activeGridId, horizonData, numLayers, isGenerating,
                           mergeDirection, builds, now, lastAlert, alertParity >>

\* the direction buttons of the merge panel
setMergeDirection(d) ==
    /\ ~crashed
    /\ Len(selectedGrids) > 1
    /\ mergeDirection' = d
    /\ UNCHANGED << aside, grids, activeGridId, horizonData, numLayers, isGenerating,
                           selectedGrids, builds, now, lastAlert, alertParity,
                           crashed, checkResult >>

\* a merge that clears the selection before it refuses
RefuseMergeAndClear(compatibility) ==
    /\ Alert("Cannot combine grids")
    /\ checkResult' = compatibility
    /\ selectedGrids' = << >>
    /\ UNCHANGED << aside, grids, activeGridId, horizonData, numLayers, isGenerating,
                           mergeDirection, builds, now, crashed >>

\* if (!compatibility.canCombine) { alert(`Cannot combine grids: ...`); return; }
RefuseMerge(compatibility) ==
    /\ Alert("Cannot combine grids")
    /\ checkResult' = compatibility
    /\ UNCHANGED << aside, grids, activeGridId, horizonData, numLayers, isGenerating,
                           selectedGrids, mergeDirection, builds, now, crashed >>

\* combineGrids
combineGrids ==
    LET gridIds == selectedGrids
    IN  IF CheckThrows(gridIds, grids)
        THEN \* the TypeError leaves the handler: nothing is updated
             UNCHANGED vars
        ELSE
          LET compatibility == canCombineGrids(gridIds, grids)
          IN  IF ~compatibility.canCombine
              THEN RefuseMerge(compatibility)
              ELSE
                \E id \in ClockReadings :
                    /\ selectedGrids' = << >>
                    /\ AddGrid(CombinedGrid(SelectedGridData(gridIds, grids),
                                            mergeDirection, id))
                    /\ activeGridId' = id
                    /\ Alert("Successfully merged")
                    /\ UNCHANGED << aside, horizonData, numLayers, isGenerating,
                                           mergeDirection, builds >>

\* disabled={!canCombineGrids(Array.from(selectedGrids)).canCombine}, on a
\* button rendered when selectedGrids.size > 1
MergeDisabled ==
    \/ Len(selectedGrids) <= 1
    \/ ~canCombineGrids(selectedGrids, grids).canCombine

\* a click on "Merge"
ClickMerge ==
    /\ ~crashed
    /\ ~MergeDisabled
    /\ RoomForGrid
    /\ combineGrids

\* the trash button of a grid row
DeleteGrid(id) ==
    /\ ~crashed
    /\ grids' = SelectSeq(grids, LAMBDA g : g.id # id)
    /\ activeGridId' = IF activeGridId = id THEN Null ELSE activeGridId
    /\ Render(SelectSeq(grids, LAMBDA g : g.id # id), selectedGrids)
    /\ UNCHANGED << aside, horizonData, numLayers, isGenerating, selectedGrids,
                           mergeDirection, builds, now, lastAlert, alertParity >>

\* const activeGrid = grids.find(g => g.id === activeGridId)
activeGrid == Find(grids, activeGridId)

\* "Clone", rendered when there is an active grid
CloneGrid ==
    /\ ~crashed
    /\ activeGrid # NoGrid
    /\ RoomForGrid
    /\ UNCHANGED selectedGrids
    /\ \E id \in ClockReadings : AddGrid([activeGrid EXCEPT !.id = id])
    /\ UNCHANGED << aside, activeGridId, horizonData, numLayers, isGenerating,
                           mergeDirection, builds, lastAlert, alertParity >>

\* a click on a grid row
setActiveGridId(id) ==
    /\ ~crashed
    /\ activeGridId' = id
    /\ UNCHANGED << aside, grids, horizonData, numLayers, isGenerating, selectedGrids,
                           mergeDirection, builds, now, lastAlert, alertParity,
                           crashed, checkResult >>

Next ==
    \/ \E h \in UploadLibrary : handleFileUpload(h)
    \/ generateRealisticHorizons
    \/ \E n \in SliderValues : setNumLayers(n)
    \/ ClickGenerate
    \/ \E i \in 1..Len(builds) : BuildResume(i)
    \/ \E id \in GridIds(grids) : ToggleSelect(id)
    \/ ClearSelection
    \/ \E d \in MergeDirections : setMergeDirection(d)
    \/ ClickMerge
    \/ \E id \in GridIds(grids) : DeleteGrid(id)
    \/ CloneGrid
    \/ \E id \in GridIds(grids) : setActiveGridId(id)

\* the component under the events of its user interface
Spec == Init /\ [][Next]_vars

\* The events that load horizons and start, resume and discard builds.
BuildNext ==
    \/ \E h \in UploadLibrary : handleFileUpload(h)
    \/ generateRealisticHorizons
    \/ \E n \in SliderValues : setNumLayers(n)
    \/ ClickGenerate
    \/ \E i \in 1..Len(builds) : BuildResume(i)
    \/ \E id \in GridIds(grids) : DeleteGrid(id)

\* A suspended build is resumed by a timer of the browser's event loop:
\* a timer that is due does fire.
FairSpec ==
    /\ Init
    /\ [][BuildNext]_vars
    /\ WF_vars(\E i \in 1..Len(builds) : BuildResume(i))

----------------------------------------------------------------------------
(* The handlers called whatever the state of their buttons *)

\* generateGeologicalGrid() called with any number of horizons loaded, while
\* no other build is running
CallGenerate ==
    /\ ~crashed
    /\ ~isGenerating
    /\ RoomForGrid
    /\ generateGeologicalGrid

\* combineGrids() called on any selection
CallMerge ==
    /\ ~crashed
    /\ RoomForGrid
    /\ combineGrids

HandlerNext ==
    \/ \E h \in UploadLibrary : handleFileUpload(h)
    \/ generateRealisticHorizons
    \/ CallGenerate
    \/ \E i \in 1..Len(builds) : BuildResume(i)
    \/ \E id \in GridIds(grids) : ToggleSelect(id)
    \/ CallMerge
    \/ \E id \in GridIds(grids) : DeleteGrid(id)

HandlerSpec == Init /\ [][HandlerNext]_vars

----------------------------------------------------------------------------
(* canCombineGrids applied to registries of grids the tool produces *)

\* a build run through all its yield points
RECURSIVE Completed(_)
Completed(t) == IF t.pc = "done" THEN t ELSE Completed(ResumeLoop(t))

\* the grid generateGeologicalGrid registers for horizons hd and numLayers nl
BuiltGrid(hd, nl) == NewGrid(Completed(RunLoop(NewBuild(hd, nl))), 0)

\* the demo surfaces, an uploaded pair with a lower top, and the same surface
\* uploaded as top and as base (no cell: topZ <= bottomZ everywhere)
ProducedGrids ==
    << BuiltGrid(<< HTop, HBase >>, 1),
       BuiltGrid(<< HTopLow, HBase >>, 1),
       BuiltGrid(<< HBase, HBase >>, 7) >>

\* registries of n grids with ids 1..n; one registry for each choice of how
\* many grids of each kind it holds
Registries ==
    { [i \in 1..p[1] |-> [ProducedGrids[p[2][i]] EXCEPT !.id = i]] :
        p \in { q \in UNION { {n} \X [1..n -> 1..Len(ProducedGrids)] : n \in 0..MaxCheckGrids } :
                  \A i \in 1..(q[1] - 1) : q[2][i] <= q[2][i + 1] } }

CheckInit ==
    /\ grids \in Registries
    /\ activeGridId = Null
    /\ horizonData = << >>
    /\ numLayers = DefaultLayers
    /\ isGenerating = FALSE
    /\ selectedGrids = << >>
    /\ mergeDirection = "vertical"
    /\ builds = << >>
    /\ now = Len(grids)
    /\ lastAlert = ""
    /\ alertParity = 0
    /\ crashed = FALSE
    /\ checkResult = canCombineGrids(<< >>, grids)
    /\ AsideInit

\* a checkbox is toggled and canCombineGrids(Array.from(selectedGrids)) called
SelectAndCheck(id) ==
    /\ selectedGrids' = Toggled(selectedGrids, id)
    /\ checkResult' = canCombineGrids(Toggled(selectedGrids, id), grids)
    /\ UNCHANGED << aside, grids, activeGridId, horizonData, numLayers, isGenerating,
                           mergeDirection, builds, now, lastAlert, alertParity,
                           crashed >>

CheckNext == \E id \in GridIds(grids) : SelectAndCheck(id)

CheckSpec == CheckInit /\ [][CheckNext]_vars

----------------------------------------------------------------------------
(* canCombineGrids applied to grids of differing extent and size *)

\* the demo grid; grids one tenth and one fifth wider in x; the demo
\* surfaces built with numLayers 4 and 9
SimilarGrids ==
    << BuiltGrid(<< HTop, HBase >>, 1),
       BuiltGrid(<< HTopWider, HBase >>, 1),
       BuiltGrid(<< HTopWidest, HBase >>, 1),
       BuiltGrid(<< HTop, HBase >>, 4),
       BuiltGrid(<< HTop, HBase >>, 9) >>

\* registries of at most maxn grids with ids 1..n, one for each choice of
\* how many grids of each kind it holds
RegistriesOf(kinds, maxn) ==
    { [i \in 1..p[1] |-> [kinds[p[2][i]] EXCEPT !.id = i]] :
        p \in { q \in UNION { {n} \X [1..n -> 1..Len(kinds)] : n \in 0..maxn } :
                  \A i \in 1..(q[1] - 1) : q[2][i] <= q[2][i + 1] } }

SimilarityRegistries == RegistriesOf(SimilarGrids, MaxSimilarGrids)

SimilarityInit ==
    /\ grids \in SimilarityRegistries
    /\ activeGridId = Null
    /\ horizonData = << >>
    /\ numLayers = DefaultLayers
    /\ isGenerating = FALSE
    /\ selectedGrids = << >>
    /\ mergeDirection = "vertical"
    /\ builds = << >>
    /\ now = Len(grids)
    /\ lastAlert = ""
    /\ alertParity = 0
    /\ crashed = FALSE
    /\ checkResult = canCombineGrids(<< >>, grids)
    /\ AsideInit

SimilarityNext == \E id \in GridIds(grids) : SelectAndCheck(id)

SimilaritySpec == SimilarityInit /\ [][SimilarityNext]_vars

----------------------------------------------------------------------------
(* combineGrids applied to registries of grids of differing position *)

\* the demo grid, the grid of the demo surfaces moved along x, and the grid
\* with the wider top
MergeSources ==
    << BuiltGrid(<< HTop, HBase >>, 1),
       BuiltGrid(<< HTopShifted, HBaseShifted >>, 1),
       BuiltGrid(<< HTopWider, HBase >>, 1) >>

MergeRegistries == RegistriesOf(MergeSources, MaxMergeSources)

MergeInit ==
    /\ grids \in MergeRegistries
    /\ activeGridId = Null
    /\ horizonData = << >>
    /\ numLayers = DefaultLayers
    /\ isGenerating = FALSE
    /\ selectedGrids = << >>
    /\ mergeDirection = "vertical"
    /\ builds = << >>
    /\ now = Len(grids) + 1
    /\ lastAlert = ""
    /\ alertParity = 0
    /\ crashed = FALSE
    /\ checkResult = NoCheck
    /\ AsideInit

\* a click on "Merge" while the registry holds source grids only
MergeSelected ==
    /\ ~crashed
    /\ ~MergeDisabled
    /\ Len(grids) <= MaxMergeSources
    /\ combineGrids

\* a checkbox is toggled while the registry holds source grids only
SelectSource(id) ==
    /\ \A n \in 1..Len(grids) : ~grids[n].isCombined
    /\ ToggleSelect(id)

MergeNext ==
    \/ \E id \in GridIds(grids) : SelectSource(id)
    \/ \E d \in MergeDirections : setMergeDirection(d)
    \/ MergeSelected

MergeSpec == MergeInit /\ [][MergeNext]_vars

----------------------------------------------------------------------------
(* combineGrids applied to registries of grids of differing layer count *)

\* grids of one extent built with numLayers 5, 3 and 1: the first over the
\* top surface that leaves three columns, the others over the demo surfaces
LayeredSources ==
    << BuiltGrid(<< HCross, HBase >>, DefaultLayers),
       BuiltGrid(<< HTop, HBase >>, 3),
       BuiltGrid(<< HTop, HBase >>, 1) >>

LayeredRegistries == RegistriesOf(LayeredSources, MaxMergeSources)

LayeredInit ==
    /\ grids \in LayeredRegistries
    /\ activeGridId = Null
    /\ horizonData = << >>
    /\ numLayers = DefaultLayers
    /\ isGenerating = FALSE
    /\ selectedGrids = << >>
    /\ mergeDirection = "vertical"
    /\ builds = << >>
    /\ now = Len(grids) + 1
    /\ lastAlert = ""
    /\ alertParity = 0
    /\ crashed = FALSE
    /\ checkResult = NoCheck
    /\ AsideInit

LayeredSpec == LayeredInit /\ [][MergeNext]_vars

----------------------------------------------------------------------------
(* generateGeologicalGrid applied to horizons that cross or nearly touch *)

BuildInit ==
    /\ grids = << >>
    /\ activeGridId = Null
    /\ horizonData \in BuildInputs
    /\ numLayers \in LayerChoices
    /\ isGenerating = FALSE
    /\ selectedGrids = << >>
    /\ mergeDirection = "vertical"
    /\ builds = << >>
    /\ now = 0
    /\ lastAlert = ""
    /\ alertParity = 0
    /\ crashed = FALSE
    /\ checkResult = NoCheck
    /\ AsideInit

GenerateNext ==
    \/ \E n \in SliderValues : setNumLayers(n)
    \/ ClickGenerate
    \/ \E i \in 1..Len(builds) : BuildResume(i)
    \/ \E id \in GridIds(grids) : DeleteGrid(id)

\* the timer of a suspended build does fire
BuildSpec ==
    /\ BuildInit
    /\ [][GenerateNext]_vars
    /\ WF_vars(\E i \in 1..Len(builds) : BuildResume(i))

----------------------------------------------------------------------------
(* The interpolation functions called directly *)

\* the point sets and the query coordinates of the calls
InterpolationInputs == { << >>, HTop, HBase, HCross, HLine, HTwin, HSlabTop }
QueryCoordinates == { 0, Side \div 2, Side }

\* geologicalInterpolation(x, y, points) of the component (method = 'idw')
CallInterpolation(x, y, points) ==
    /\ lastCall' = [fn |-> "geologicalInterpolation", method |-> "idw",
                    x |-> x, y |-> y, points |-> points,
                    value |-> geologicalInterpolation(x, y, points)]
    /\ UNCHANGED << grids, activeGridId, horizonData, numLayers, isGenerating,
                    selectedGrids, mergeDirection, builds, now, lastAlert,
                    alertParity, crashed, checkResult, faultData, localStorage >>

\* geologicalInterpolation(x, y, points) of the utilities (method = 'kriging')
CallKrigingInterpolation(x, y, points) ==
    /\ lastCall' = [fn |-> "geologicalInterpolation", method |-> "kriging",
                    x |-> x, y |-> y, points |-> points,
                    value |-> geologicalInterpolationKriging(x, y, points)]
    /\ UNCHANGED << grids, activeGridId, horizonData, numLayers, isGenerating,
                    selectedGrids, mergeDirection, builds, now, lastAlert,
                    alertParity, crashed, checkResult, faultData, localStorage >>

InterpolationNext ==
    \E points \in InterpolationInputs : \E x \in QueryCoordinates, y \in QueryCoordinates :
        \/ CallInterpolation(x, y, points)
        \/ CallKrigingInterpolation(x, y, points)

InterpolationSpec == Init /\ [][InterpolationNext]_vars

----------------------------------------------------------------------------
(* calculateAdvancedFaultInfluence called on the loaded fault files *)

\* reader.onload of handleFileUpload(event, 'fault')
handleFaultFileUpload(f) ==
    /\ ~crashed
    /\ Len(faultData) < MaxFaults
    /\ faultData' = Append(faultData, f)
    /\ UNCHANGED << grids, activeGridId, horizonData, numLayers, isGenerating,
                    selectedGrids, mergeDirection, builds, now, lastAlert,
                    alertParity, crashed, checkResult, lastCall, localStorage >>

\* "Demo Faults"
generateRealisticFaults ==
    /\ ~crashed
    /\ faultData' = DemoFaults
    /\ UNCHANGED << grids, activeGridId, horizonData, numLayers, isGenerating,
                    selectedGrids, mergeDirection, builds, now, lastAlert,
                    alertParity, crashed, checkResult, lastCall, localStorage >>

\* the locations the function is called at, and the draws of Math.random()
\* (in hundredths)
FaultQueries == { [x |-> 0, y |-> 0, z |-> 600],
                  [x |-> 40 * TicksPerUnit, y |-> 0, z |-> 600],
                  [x |-> 0, y |-> 0, z |-> 200] }
RandomDraws == { 0, 50, 99 }

\* calculateAdvancedFaultInfluence(x, y, z, faultData)
CallFaultInfluence(q, random) ==
    /\ lastCall' = [fn |-> "calculateAdvancedFaultInfluence",
                    x |-> q.x, y |-> q.y, z |-> q.z, faults |-> faultData,
                    random |-> random,
                    value |-> calculateAdvancedFaultInfluence(q.x, q.y, q.z,
                                                              faultData, random)]
    /\ UNCHANGED << grids, activeGridId, horizonData, numLayers, isGenerating,
                    selectedGrids, mergeDirection, builds, now, lastAlert,
                    alertParity, crashed, checkResult, faultData, localStorage >>

FaultNext ==
    \/ \E f \in FaultLibrary : handleFaultFileUpload(f)
    \/ generateRealisticFaults
    \/ \E q \in FaultQueries, random \in RandomDraws : CallFaultInfluence(q, random)

FaultSpec == Init /\ [][FaultNext]_vars

----------------------------------------------------------------------------
(* projectUtils: projects saved in localStorage *)

\* localStorage holds, under telesto_project_<id>, one project for each id
\* (projects), under telesto_project_index the list of their summaries
\* (index) and under telesto_history_<id> the history of each id (history).
\* A name is the sequence of its characters.

\* the ids `project_${Date.now()}_${random}` may produce
ProjectIds == 1..MaxProjects

\* the names typed into the project name field
ProjectNames == { << "a" >>, << "a", " " >>, << "b" >>, << " " >> }

\* history.slice(-50)
HistoryLimit == 50

\* String.prototype.trim
RECURSIVE TrimStart(_)
TrimStart(s) == IF s # << >> /\ Head(s) = " " THEN TrimStart(Tail(s)) ELSE s

RECURSIVE TrimEnd(_)
TrimEnd(s) ==
    IF s # << >> /\ s[Len(s)] = " " THEN TrimEnd(SubSeq(s, 1, Len(s) - 1)) ELSE s

Trim(s) == TrimEnd(TrimStart(s))

\* localStorage.getItem of a keyed item: the item, or << >> for none
GetItem(items, id) == IF id \in DOMAIN items THEN items[id] ELSE << >>

\* localStorage.setItem of a keyed item
SetItem(items, id, value) ==
    [k \in DOMAIN items \cup {id} |-> IF k = id THEN value ELSE items[k]]

\* localStorage.removeItem of a keyed item
RemoveItem(items, id) == [k \in DOMAIN items \ {id} |-> items[k]]

\* the summary the index keeps of a project
IndexEntry(project) ==
    [ id |-> project.id, name |-> project.name, created |-> project.created,
      lastModified |-> project.lastModified, version |-> project.version ]

\* the index entries whose project is still stored
validProjects(store) ==
    SelectSeq(store.index, LAMBDA e : e.id \in DOMAIN store.projects)

\* validProjects.sort((a, b) => new Date(b.lastModified) - new
\* Date(a.lastModified)): latest first, equal dates in their order
RECURSIVE InsertByDate(_, _)
InsertByDate(sorted, e) ==
    IF sorted = << >> THEN << e >>
    ELSE IF Head(sorted).lastModified >= e.lastModified
         THEN << Head(sorted) >> \o InsertByDate(Tail(sorted), e)
         ELSE << e >> \o sorted

RECURSIVE SortByDate(_)
SortByDate(s) ==
    IF s = << >> THEN << >>
    ELSE InsertByDate(SortByDate(SubSeq(s, 1, Len(s) - 1)), s[Len(s)])

\* what listProjects returns
listProjects(store) == SortByDate(validProjects(store))

\* the storage after listProjects: the index is rewritten when entries
\* were dropped
AfterListProjects(store) == [store EXCEPT !.index = validProjects(store)]

\* existingProjects.find(p => p.name === name): its position, or 0
RECURSIVE FindByName(_, _, _)
FindByName(projects, name, k) ==
    IF k > Len(projects) THEN 0
    ELSE IF projects[k].name = name THEN k
    ELSE FindByName(projects, name, k + 1)

\* addProjectHistory(projectId, action)
addProjectHistory(store, id, action) ==
    LET history == Append(GetItem(store.history, id), action)
        kept    == IF Len(history) > HistoryLimit
                   THEN SubSeq(history, Len(history) - HistoryLimit + 1, Len(history))
                   ELSE history
    IN [store EXCEPT !.history = SetItem(@, id, kept)]

\* updateProjectIndex(project)
updateProjectIndex(store, project) ==
    LET listed == AfterListProjects(store)
    IN [listed EXCEPT !.index =
           Append(SelectSeq(listProjects(store), LAMBDA e : e.id # project.id),
                  IndexEntry(project))]

\* the project saveProject builds: that of the existing project of the
\* same name (position k of the list), or a new one
ProjectToSave(existingProjects, k, name, id, t) ==
    IF k # 0
    THEN [ id |-> existingProjects[k].id, name |-> Trim(name),
           version |-> (IF existingProjects[k].version = 0 THEN 1
                        ELSE existingProjects[k].version) + 1,
           created |-> existingProjects[k].created, lastModified |-> t ]
    ELSE [ id |-> id, name |-> Trim(name), version |-> 1,
           created |-> t, lastModified |-> t ]

\* the storage after saveProject(name, projectData), where id is the id
\* generated and t the time read
Saved(store, name, id, t) ==
    LET existingProjects == listProjects(store)
        k       == FindByName(existingProjects, name, 1)
        project == ProjectToSave(existingProjects, k, name, id, t)
        noted   == addProjectHistory(AfterListProjects(store), project.id,
                                     IF k # 0 THEN "Project updated"
                                     ELSE "Project created")
        stored  == [noted EXCEPT !.projects = SetItem(@, project.id, project)]
    IN updateProjectIndex(stored, project)

\* "Save" with the name typed: handleSaveProject refuses a blank name and
\* passes the name as typed to saveProject
saveProject(name, id) ==
    /\ Trim(name) # << >>
    /\ \A k \in ProjectIds : Len(GetItem(localStorage.history, k)) < MaxHistory
    /\ \E t \in ClockReadings :
          /\ localStorage' = Saved(localStorage, name, id, t)
          /\ now' = t
    /\ UNCHANGED << grids, activeGridId, horizonData, numLayers, isGenerating,
                    selectedGrids, mergeDirection, builds, lastAlert,
                    alertParity, crashed, checkResult, faultData, lastCall >>

\* the storage after deleteProject(projectId)
Deleted(store, id) ==
    LET removed == [store EXCEPT !.projects = RemoveItem(@, id)]
        listed  == AfterListProjects(removed)
    IN [listed EXCEPT !.index = SelectSeq(listProjects(removed), LAMBDA e : e.id # id),
                      !.history = RemoveItem(@, id)]

\* deleteProject(projectId)
deleteProject(id) ==
    /\ localStorage' = Deleted(localStorage, id)
    /\ UNCHANGED << grids, activeGridId, horizonData, numLayers, isGenerating,
                    selectedGrids, mergeDirection, builds, now, lastAlert,
                    alertParity, crashed, checkResult, faultData, lastCall >>

ProjectNext ==
    \/ \E name \in ProjectNames, id \in ProjectIds : saveProject(name, id)
    \/ \E id \in ProjectIds : deleteProject(id)

ProjectSpec == Init /\ [][ProjectNext]_vars

----------------------------------------------------------------------------
(* Properties *)

RefusedBuildText == "Please provide at least two horizon surfaces (top and bottom)"

\* the step in which combineGrids registers the merged grid
MergeStep == alertParity' # alertParity /\ lastAlert' = "Successfully merged"

\* the step in which generateGeologicalGrid refuses its input
BuildRefusedStep == alertParity' # alertParity /\ lastAlert' = RefusedBuildText

\* the step in which combineGrids refuses the selection
MergeRefusedStep == alertParity' # alertParity /\ lastAlert' = "Cannot combine grids"

Reversed(s) == [i \in 1..Len(s) |-> s[Len(s) + 1 - i]]

\* the selection is one grid and a copy of it under another id
SelectionIsGridAndCopy ==
    /\ ~crashed
    /\ Len(selectedGrids) = 2
    /\ [Find(grids, selectedGrids[1]) EXCEPT !.id = 0]
         = [Find(grids, selectedGrids[2]) EXCEPT !.id = 0]

\* the three checks of canCombineGrids on the current selection
SelectionPassesChecks ==
    /\ BoundsDetails(SelectedGridData(selectedGrids, grids), 2) = << >>
    /\ \A i, j \in 1..Len(selectedGrids) :
          Find(grids, selectedGrids[i]).layerCount
            - Find(grids, selectedGrids[j]).layerCount <= MaxLayerDiff
    /\ PointVarianceWithin([i \in 1..Len(selectedGrids) |->
                               Find(grids, selectedGrids[i]).pointCount])

\* C1: in every successful merge step, vertical or horizontal, the
\* totalVolume of the merged grid (the grid the step appends to the registry)
\* is the sum of the totalVolume of the selected source grids.
C1_MergedVolumeIsSum ==
    [][MergeStep =>
         grids'[Len(grids')].totalVolume
           = SeqSum([i \in 1..Len(selectedGrids) |->
                        Find(grids, selectedGrids[i]).totalVolume])]_vars

\* a horizontal merge of grids that hold volume has been made
C1_MergedGridRegistered ==
    /\ lastAlert = "Successfully merged"
    /\ mergeDirection = "horizontal"
    /\ selectedGrids = << >>
    /\ grids # << >>
    /\ grids[Len(grids)].isCombined
    /\ grids[Len(grids)].id = activeGridId
    /\ grids[Len(grids)].totalVolume > grids[1].totalVolume
    /\ grids[1].totalVolume > 0

\* C2: the compatibility check is symmetric: for two selected grids, the
\* canCombine of the check on the selection equals the canCombine of the
\* check on the selection in the opposite order.
C2_CheckIsSymmetric ==
    (~crashed /\ Len(selectedGrids) = 2) =>
        checkResult.canCombine
          = canCombineGrids(Reversed(selectedGrids), grids).canCombine

\* C3: a grid and an identical copy of it (a clone under a new id) are
\* compatible: the check returns canCombine = true, no reasons and score
\* 100, for every grid the tool produces, a grid with pointCount 0 included.
C3_GridCompatibleWithCopy ==
    SelectionIsGridAndCopy =>
        /\ checkResult.canCombine
        /\ checkResult.details = << >>
        /\ checkResult.compatibilityScore = 100

\* C4: a build that has started and is suspended at a yield point
\* eventually completes, with isGenerating back to false (unless the
\* component was unmounted meanwhile), when its timers are scheduled fairly.
C4_BuildCompletes ==
    (builds # << >>) ~> (builds = << >> /\ (crashed \/ ~isGenerating))

\* C5: no two builds interleave: at most one build is suspended between its
\* start and its completion, whatever the order of the UI events.
C5_OneBuildAtATime == Len(builds) <= 1

\* a build is suspended while the input and the registry would allow another
C5_BuildSuspended ==
    /\ Len(builds) = 1
    /\ isGenerating
    /\ ~crashed
    /\ Len(horizonData) >= 2
    /\ RoomForGrid

\* C6: a build requested with fewer than two horizons is refused without
\* any mutation: the step leaves grids, activeGridId and isGenerating
\* unchanged (no grid is registered).
C6_RefusedBuildMutatesNothing ==
    [][BuildRefusedStep => UNCHANGED << grids, activeGridId, isGenerating >>]_vars

\* a build has been refused for a single uploaded horizon
C6_BuildRefused ==
    /\ lastAlert = RefusedBuildText
    /\ Len(horizonData) = 1
    /\ ~isGenerating
    /\ builds = << >>

\* C7: a merge attempted on a selection that does not pass the
\* compatibility check is refused without any mutation: the step leaves
\* grids, activeGridId and selectedGrids unchanged (no grid is added).
C7_RefusedMergeMutatesNothing ==
    [][MergeRefusedStep => UNCHANGED << grids, activeGridId, selectedGrids >>]_vars

\* a merge of two registered grids has been refused with a reason
C7_MergeRefused ==
    /\ lastAlert = "Cannot combine grids"
    /\ Len(selectedGrids) = 2
    /\ ~CheckThrows(selectedGrids, grids)
    /\ ~checkResult.canCombine
    /\ checkResult.details # << >>

\* C8: the compatibility check fails closed: on a selection of zero or one
\* grid it returns canCombine = false.
C8_FewerThanTwoNotCombinable ==
    Len(selectedGrids) < 2 => ~checkResult.canCombine

\* the check has been applied to a selection of one grid that holds cells
C8_OneGridChecked ==
    /\ Len(selectedGrids) = 1
    /\ Find(grids, selectedGrids[1]).pointCount > 0
    /\ checkResult.reason = "Need at least 2 grids"

\* C9: for a selection of two or more grids, canCombine is true exactly
\* when the bounds, layer-count and point-count checks all pass, and
\* canCombine is false if and only if the list of reasons is non-empty.
C9_FalseIffReasons ==
    (~crashed /\ Len(selectedGrids) >= 2) =>
        /\ checkResult.canCombine <=> SelectionPassesChecks
        /\ ~checkResult.canCombine <=> checkResult.details # << >>

\* C10: the compatibility score the check returns for a list of two or more
\* grids lies in 0..100, whatever the number of grids and of mismatches.
C10_ScoreInRange ==
    Len(selectedGrids) >= 2 => checkResult.compatibilityScore \in 0..100

\* the grids of the selection, in selection order
selectedGridData == SelectedGridData(selectedGrids, grids)

\* the first grid's extent along the axis of a bound
ExtentAlong(b, lo, hi) == b[hi] - b[lo]

\* bound f of grid g is within 10% of the first grid's extent lo..hi
WithinTenth(first, g, f, lo, hi) ==
    10 * Abs(g.bounds[f] - first.bounds[f]) <= ExtentAlong(first.bounds, lo, hi)

\* every bound of every grid beyond the first is within 10% of the first
\* grid's extent along its axis
AllBoundsWithinTenth(data) ==
    \A i \in 2..Len(data) :
        /\ WithinTenth(data[1], data[i], "xMin", "xMin", "xMax")
        /\ WithinTenth(data[1], data[i], "xMax", "xMin", "xMax")
        /\ WithinTenth(data[1], data[i], "yMin", "yMin", "yMax")
        /\ WithinTenth(data[1], data[i], "yMax", "yMin", "yMax")
        /\ WithinTenth(data[1], data[i], "zMin", "zMin", "zMax")
        /\ WithinTenth(data[1], data[i], "zMax", "zMin", "zMax")

HasDetail(result, text) == \E k \in 1..Len(result.details) : result.details[k] = text

SelectedPointCounts ==
    [i \in 1..Len(selectedGrids) |-> selectedGridData[i].pointCount]

\* n^2 times the sum of the squared deviations from the mean, for n counts
\* of sum S: the sum of (n*p - S)^2
SquaredDeviation(pointCounts) ==
    LET n == Len(pointCounts)
        S == SeqSum(pointCounts)
    IN  SeqSum([i \in 1..n |-> (n * pointCounts[i] - S) * (n * pointCounts[i] - S)])

\* standard deviation / mean <= 0.3, for the standard deviation of the n
\* counts as a population: sqrt(sum((p - S/n)^2) / n) <= 0.3 * S / n, squared
CoefficientOfVariationWithin(pointCounts) ==
    LET n == Len(pointCounts)
        S == SeqSum(pointCounts)
    IN  100 * SquaredDeviation(pointCounts) <= 9 * n * S * S

\* C12: for a selection of two or more grids that hold cells, the
\* point-count check passes (no point-count reason is given) exactly when the
\* coefficient of variation of pointCount across the selected grids, their
\* standard deviation divided by their mean, is at most 0.3.
C12_PointCheckIsCoefficientOfVariation ==
    (/\ Len(selectedGrids) >= 2
     /\ \A i \in 1..Len(selectedGrids) : SelectedPointCounts[i] > 0)
    => (~HasDetail(checkResult, "Point count variance too high")
          <=> CoefficientOfVariationWithin(SelectedPointCounts))

\* what a cell holds besides the fields a merge adds
CellData(c) ==
    [x |-> c.x, y |-> c.y, z |-> c.z, layer |-> c.layer, bulkVolume |-> c.bulkVolume]

\* the cells of s moved by (dx, 0, dz)
Translated(s, dx, dz) ==
    [k \in 1..Len(s) |-> [CellData(s[k]) EXCEPT !.x = @ + dx, !.z = @ + dz]]

\* the cells of the merged grid that carry grid index i, in their order
CellsOfSource(merged, i) ==
    LET own == SelectSeq(merged.points, LAMBDA c : c.gridIndex = i)
    IN  [k \in 1..Len(own) |-> CellData(own[k])]

CountIn(s, e) == Cardinality({k \in 1..Len(s) : s[k] = e})

\* s and t hold the same elements the same number of times
SameBag(s, t) ==
    /\ Len(s) = Len(t)
    /\ \A e \in Range(s) \cup Range(t) : CountIn(s, e) = CountIn(t, e)

\* the translation the claim gives the (i+1)-th selected grid
ExpectedShiftX(data, i, direction) ==
    IF direction = "horizontal"
    THEN SeqSum([j \in 1..i |-> data[j].bounds.xMax - data[j].bounds.xMin])
    ELSE 0

ExpectedShiftZ(i, direction) ==
    IF direction = "vertical" THEN 50 * TicksPerUnit * i ELSE 0

C14_SecondGridStartsAtFirstWidth ==
    [][(/\ MergeStep
        /\ mergeDirection = "horizontal"
        /\ Len(selectedGrids) = 2
        /\ selectedGridData[1].bounds.xMin = 0)
       => LET cellsOfB == CellsOfSource(grids'[Len(grids')], 1)
          IN  SeqMin([k \in 1..Len(cellsOfB) |-> cellsOfB[k].x])
                = selectedGridData[1].bounds.xMax - selectedGridData[1].bounds.xMin]_vars

\* C15: a merge leaves its inputs untouched: in every merge step each grid of
\* the registry, the merged sources included, keeps its place and all its
\* fields (cells with their coordinates, layer, properties and order, bounds,
\* layerCount, pointCount, totalVolume), and the merged grid is one new entry
\* appended to the registry.
C15_MergeLeavesSourcesUntouched ==
    [][MergeStep =>
         /\ Len(grids') = Len(grids) + 1
         /\ SubSeq(grids', 1, Len(grids)) = grids
         /\ grids'[Len(grids')].isCombined
         /\ \A i \in 1..Len(selectedGrids) :
               Find(grids', selectedGrids[i]) = selectedGridData[i]]_vars

\* a vertical merge of two source grids has been made: the registry holds
\* the sources, which have cells, and the merged grid after them
C15_SourcesBesideMergedGrid ==
    /\ lastAlert = "Successfully merged"
    /\ Len(grids) = 3
    /\ ~grids[1].isCombined /\ grids[1].pointCount > 0
    /\ ~grids[2].isCombined /\ grids[2].pointCount > 0
    /\ grids[3].isCombined
    /\ grids[3].mergeType = "vertical"
    /\ grids[3].pointCount = grids[1].pointCount + grids[2].pointCount

\* the layer index a grid gives a cell: the recomputed combinedLayer in a
\* merged grid, the layer in a generated one
LayerIndexIn(g, c) == IF g.isCombined THEN c.combinedLayer ELSE c.layer

\* C16: in every grid of the registry, generated or merged, the layer index
\* of every cell lies in 0..layerCount - 1 of its grid; in a merged grid the
\* index is the recomputed one, original layer + i * (source layerCount + 1),
\* and layerCount is that of the merged grid.
C16_LayerIndexBelowLayerCount ==
    \A n \in 1..Len(grids) :
        \A k \in 1..Len(grids[n].points) :
            LayerIndexIn(grids[n], grids[n].points[k]) \in 0..(grids[n].layerCount - 1)

\* cell c lies within the bounds b
CellWithin(c, b) ==
    /\ b.xMin <= c.x /\ c.x <= b.xMax
    /\ b.yMin <= c.y /\ c.y <= b.yMax
    /\ b.zMin <= c.z /\ c.z <= b.zMax

\* C17: for every grid of the registry, generated or merged, bounds is the
\* envelope of the grid's cells: the x, y and z of every cell lie within
\* xMin..xMax, yMin..yMax and zMin..zMax of that grid.
C17_BoundsEnvelopCells ==
    \A n \in 1..Len(grids) :
        \A k \in 1..Len(grids[n].points) :
            CellWithin(grids[n].points[k], grids[n].bounds)

\* topZ - bottomZ at a sampling position
ThicknessAt(t, pos) ==
    geologicalInterpolation(pos.x, pos.y, t.top)
      - geologicalInterpolation(pos.x, pos.y, t.bottom)

\* the positions the build retains: those with topZ > bottomZ
RetainedPositions(t) ==
    SelectSeq(SamplingPositions(t.bounds, t.gridSpacing),
              LAMBDA pos : ThicknessAt(t, pos) > 0)

\* a step in which generateGeologicalGrid is called and suspends
BuildStartStep == Len(builds') = Len(builds) + 1

\* build t has registered g: every retained position has given t.nl + 2
\* cells in a row, with the layers 0..t.nl + 1 in order
EveryLayerOnce(t, g, retained) ==
    /\ g.layerCount = t.nl + 2
    /\ g.pointCount = Len(g.points)
    /\ g.pointCount = Len(retained) * (t.nl + 2)
    /\ \A k \in 1..Len(g.points) :
          /\ g.points[k].layer = (k - 1) % (t.nl + 2)
          /\ g.points[k].x = retained[(k - 1) \div (t.nl + 2) + 1].x
          /\ g.points[k].y = retained[(k - 1) \div (t.nl + 2) + 1].y

\* C18: a build captures numLayers when it starts; when it registers its
\* grid, every retained sampling position has contributed exactly
\* numLayers + 2 cells carrying the layer indices 0..numLayers+1 once each,
\* the grid has layerCount = numLayers + 2, and its pointCount is both the
\* number of its cells and (retained positions) * (numLayers + 2).
C18_ColumnsHoldEveryLayerOnce ==
    [][/\ BuildStartStep => builds'[Len(builds')].nl = numLayers
       /\ \A i \in 1..Len(builds) :
             (builds' = RemoveAt(builds, i) /\ Len(grids') = Len(grids) + 1)
             => EveryLayerOnce(builds[i], grids'[Len(grids')],
                               RetainedPositions(builds[i]))]_vars

\* a grid built with the default numLayers = 5 holds cells, seven to a
\* column, after the slider has been moved to 1
C18_SevenLayerGridBuilt ==
    /\ numLayers = 1
    /\ builds = << >>
    /\ grids # << >>
    /\ grids[Len(grids)].layerCount = DefaultLayers + 2
    /\ grids[Len(grids)].pointCount >= 2 * (DefaultLayers + 2)
    /\ grids[Len(grids)].points[DefaultLayers + 2].layer = DefaultLayers + 1

\* the volume a build accumulates over the positions given
VolumeOver(t, positions) ==
    SeqSum([k \in 1..Len(positions) |->
               (t.nl + 2) * CellVolume(ThicknessAt(t, positions[k]), t.nl, t.gridSpacing)])

\* build t has registered g: g holds no cell at a skipped position, and its
\* pointCount and totalVolume are those of the retained positions alone
SkippedContributeNothing(t, g, retained) ==
    /\ \A k \in 1..Len(g.points) :
          \E r \in 1..Len(retained) :
              g.points[k].x = retained[r].x /\ g.points[k].y = retained[r].y
    /\ Len(g.points) = Len(retained) * (t.nl + 2)
    /\ g.pointCount = Len(retained) * (t.nl + 2)
    /\ g.totalVolume = RoundDiv(VolumeOver(t, retained), FineScale * FineScale)

C20_ElevationsIncreaseWithLayer ==
    \A n \in 1..Len(grids) :
        ~grids[n].isCombined =>
            \A k \in 1..(Len(grids[n].points) - 1) :
                (/\ StructuralDip(grids[n].points[k].x, grids[n].points[k].y) = 0
                 /\ grids[n].points[k + 1].x = grids[n].points[k].x
                 /\ grids[n].points[k + 1].y = grids[n].points[k].y
                 /\ grids[n].points[k + 1].layer = grids[n].points[k].layer + 1)
                => grids[n].points[k].z < grids[n].points[k + 1].z

\* cell c of a column between bottomZ and topZ (fine units) built with nl
\* layers: its stored z is bottomZ + c.layer * (topZ - bottomZ) / (nl + 1),
\* to the two decimals a z is stored with, and that value itself when it
\* has no more than two decimals
ElevationByLayer(c, nl, bottomZ, topZ) ==
    /\ c.z = RoundDiv((nl + 1) * bottomZ + c.layer * (topZ - bottomZ),
                      (nl + 1) * FineScale)
    /\ ((nl + 1) * bottomZ + c.layer * (topZ - bottomZ)) % ((nl + 1) * FineScale) = 0
          => c.z * (nl + 1) * FineScale
               = (nl + 1) * bottomZ + c.layer * (topZ - bottomZ)
    /\ c.layer = 0 => c.z = RoundDiv(bottomZ, FineScale)
    /\ c.layer = nl + 1 => c.z = RoundDiv(topZ, FineScale)

\* C21: no fault file is loaded; when a build registers its grid, every
\* cell at a position where the structural dip is zero has the elevation
\* bottomZ + k * (topZ - bottomZ) / (numLayers + 1) for its layer k, at the
\* stored precision of two decimals: layer 0 lies at the interpolated base
\* and layer numLayers + 1 at the interpolated top of the column.
C21_ElevationProportionalToLayer ==
    [][\A i \in 1..Len(builds) :
          (builds' = RemoveAt(builds, i) /\ Len(grids') = Len(grids) + 1)
          => \A k \in 1..Len(grids'[Len(grids')].points) :
                StructuralDip(grids'[Len(grids')].points[k].x,
                              grids'[Len(grids')].points[k].y) = 0
                => ElevationByLayer(
                      grids'[Len(grids')].points[k], builds[i].nl,
                      geologicalInterpolation(grids'[Len(grids')].points[k].x,
                                              grids'[Len(grids')].points[k].y,
                                              builds[i].bottom),
                      geologicalInterpolation(grids'[Len(grids')].points[k].x,
                                              grids'[Len(grids')].points[k].y,
                                              builds[i].top))]_vars

\* the slab between 9.00 and 10.00 has been built with numLayers = 3: the
\* column at (0,0) holds five cells at 9.00, 9.25, 9.50, 9.75 and 10.00
C21_SlabColumnBuilt ==
    /\ horizonData = << HSlabTop, HSlabBase >>
    /\ builds = << >>
    /\ grids # << >>
    /\ grids[Len(grids)].layerCount = 5
    /\ Len(grids[Len(grids)].points) >= 5
    /\ \A k \in 1..5 :
          /\ grids[Len(grids)].points[k].x = 0
          /\ grids[Len(grids)].points[k].y = 0
          /\ grids[Len(grids)].points[k].layer = k - 1
          /\ grids[Len(grids)].points[k].z = 900 + 25 * (k - 1)

\* sample i of points is the only sample at the location (x, y)
UniqueSampleAt(points, i, x, y) ==
    /\ points[i].x = x /\ points[i].y = y
    /\ \A j \in 1..Len(points) :
          j # i => ~(points[j].x = x /\ points[j].y = y)

\* C22: a call of geologicalInterpolation at the location of a sample that
\* is the only sample there returns that sample's z exactly, whatever the
\* elevations of the other samples, and a call over an empty point set
\* returns 0.
C22_ExactAtUniqueSample ==
    lastCall.fn = "geologicalInterpolation" =>
        /\ lastCall.points = << >> => lastCall.value = 0
        /\ \A i \in 1..Len(lastCall.points) :
              UniqueSampleAt(lastCall.points, i, lastCall.x, lastCall.y)
              => lastCall.value = lastCall.points[i].z * FineScale

\* the points of the call's fault files that lie within the radius of the
\* call's location
PointsWithinRadius(call) ==
    SelectSeq(FaultPoints(call.faults),
              LAMBDA point : Dist3(call.x, call.y, call.z, point)
                               < InfluenceRadius * TicksPerUnit * InfluenceRadius * TicksPerUnit)

\* point is the nearest of the points: the one of largest contribution
NearestAmong(call, point, points) ==
    \A k \in 1..Len(points) :
        Dist3(call.x, call.y, call.z, point) <= Dist3(call.x, call.y, call.z, points[k])

\* the flag the claim gives the call: the segId of the nearest point within
\* the radius if its contribution exceeds the threshold, 0 otherwise
FlagIsDominantSegment(call, within) ==
    /\ within = << >> => call.value.faultFlag = 0
    /\ call.value.faultFlag # 0
          => \E k \in 1..Len(within) : within[k].segId = call.value.faultFlag
    /\ \A k \in 1..Len(within) :
          (/\ NearestAmong(call, within[k], within)
           /\ \A j \in 1..Len(within) :
                 j # k => ~NearestAmong(call, within[j], within))
          => call.value.faultFlag
               = IF Influence(Sqrt(Dist3(call.x, call.y, call.z, within[k]))) > FlagThreshold
                 THEN within[k].segId ELSE 0

\* C23: calculateAdvancedFaultInfluence returns as faultFlag the segId of
\* the single fault point of largest contribution (the nearest point
\* within the radius) when that contribution exceeds the threshold, and 0
\* otherwise: 0 when no fault point lies within the radius, and never a
\* non-zero value that is not the segId of a supplied fault point.
C23_FlagIsDominantSegment ==
    lastCall.fn = "calculateAdvancedFaultInfluence"
    => FlagIsDominantSegment(lastCall, PointsWithinRadius(lastCall))

\* the contribution of a fault point to the call
ContributionOf(call, point) == Influence(Sqrt(Dist3(call.x, call.y, call.z, point)))

\* within[k] is the first, in the order of the files, of the points of
\* largest contribution
FirstOfLargest(call, within, k) ==
    /\ \A j \in 1..Len(within) :
          ContributionOf(call, within[j]) <= ContributionOf(call, within[k])
    /\ \A j \in 1..(k - 1) :
          ContributionOf(call, within[j]) < ContributionOf(call, within[k])

FlagIsSegmentOrDefault(call, within) ==
    /\ within = << >> => call.value.faultFlag = 0
    /\ call.value.faultFlag # 0
          => \E k \in 1..Len(within) :
                call.value.faultFlag
                  = IF within[k].segId = Null \/ within[k].segId = 0
                    THEN 1 ELSE within[k].segId
    /\ \A k \in 1..Len(within) :
          FirstOfLargest(call, within, k)
          => call.value.faultFlag
               = IF ContributionOf(call, within[k]) <= FlagThreshold THEN 0
                 ELSE IF within[k].segId = Null \/ within[k].segId = 0 THEN 1
                 ELSE within[k].segId

\* C23 (amended): the faultFlag returned is 0 when no fault point lies
\* within the radius or the largest single contribution does not exceed
\* the threshold; otherwise it is the segId of the first point of largest
\* contribution, or 1 when that point has no segId or the segId 0.  A
\* non-zero faultFlag is the segId of a supplied point within the radius,
\* or the default 1 of a point without one.
C23_FlagIsSegmentOrDefault ==
    lastCall.fn = "calculateAdvancedFaultInfluence"
    => FlagIsSegmentOrDefault(lastCall, PointsWithinRadius(lastCall))

\* a call whose nearest fault point comes from a file without a segment
\* column has returned the flag 1, with a point of segment 2 further away
C23_PlainPointFlagged ==
    /\ lastCall.fn = "calculateAdvancedFaultInfluence"
    /\ lastCall.faults = << FSecond, FPlain >>
    /\ lastCall.x = 0 /\ lastCall.z = 600
    /\ Len(PointsWithinRadius(lastCall)) = 2
    /\ lastCall.value.faultFlag = 1

\* C24: every grid that enters the registry, by a build, a merge or a
\* clone, gets a new id: the grids of the registry have pairwise distinct
\* ids.
C24_GridIdsDistinct ==
    \A i \in 1..Len(grids) : \A j \in 1..Len(grids) :
        i # j => grids[i].id # grids[j].id

\* what a build captured when it started
CapturedInputs(t) == << t.top, t.bottom, t.nl >>

\* C25: a build works on the inputs it captured when it started.  The
\* build that starts captures the horizons and numLayers of that moment;
\* whatever event is interleaved at a yield point, a suspended build keeps
\* them; and when it finishes it appends to the registry, as the registry
\* is at that moment, the grid with the layerCount and the cells those
\* inputs give.
C25_BuildUsesCapturedInputs ==
    [][/\ BuildStartStep
          => CapturedInputs(builds'[Len(builds')])
               = << horizonData[1], horizonData[2], numLayers >>
       /\ \A i \in 1..Len(builds) :
             /\ Len(builds') = Len(builds)
                   => CapturedInputs(builds'[i]) = CapturedInputs(builds[i])
             /\ builds' = RemoveAt(builds, i)
                   => /\ Len(grids') = Len(grids) + 1
                      /\ SubSeq(grids', 1, Len(grids)) = grids
                      /\ grids'[Len(grids')].layerCount = builds[i].nl + 2
                      /\ grids'[Len(grids')].points
                           = BuiltGrid(<< builds[i].top, builds[i].bottom >>,
                                       builds[i].nl).points]_vars

\* C26: every id in selectedGrids is the id of a grid in the registry.
C26_SelectionWithinRegistry ==
    \A k \in 1..Len(selectedGrids) : selectedGrids[k] \in GridIds(grids)

\* C27: in a merged grid, cells that come from different source positions
\* never share a recomputed layer index.
C27_SourceLayerRangesDisjoint ==
    \A k \in 1..Len(grids) :
        grids[k].isCombined
          => \A a, b \in 1..Len(grids[k].points) :
                grids[k].points[a].gridIndex # grids[k].points[b].gridIndex
                  => grids[k].points[a].combinedLayer
                       # grids[k].points[b].combinedLayer

\* spacing^2 * (topZ - bottomZ) at a sampling position, in 1/FineScale^2 of
\* a cubic unit
ColumnVolume(t, pos) ==
    RoundDiv(t.gridSpacing * t.gridSpacing * ThicknessAt(t, pos),
             TicksPerUnit * TicksPerUnit)

\* the bulk volumes, in hundredths of a cubic unit, of the cells of the
\* r-th retained column of g
BulkVolumeOfColumn(t, g, r) ==
    SeqSum([k \in 1..(t.nl + 2) |-> g.points[(r - 1) * (t.nl + 2) + k].bulkVolume])

\* build t has registered g: up to the rounding of the stored numbers
\* (a hundredth of a cubic unit for each cell, one cubic unit for the
\* total), each column's bulk volumes add up to the column's volume and
\* totalVolume is the sum of the column volumes
VolumeIsColumnSum(t, g, retained) ==
    /\ \A r \in 1..Len(retained) :
          Abs(BulkVolumeOfColumn(t, g, r) * FineScale
                - ColumnVolume(t, retained[r])) <= (t.nl + 2) * FineScale
    /\ Abs(g.totalVolume * FineScale * FineScale
             - SeqSum([r \in 1..Len(retained) |-> ColumnVolume(t, retained[r])]))
          <= FineScale * FineScale

\* C28: the bulk volumes of the cells of one retained column add up to
\* spacing^2 * (topZ - bottomZ), and the totalVolume of a built grid is the
\* sum of spacing^2 * (topZ - bottomZ) over the retained positions.
C28_VolumeIsColumnSum ==
    [][\A i \in 1..Len(builds) :
          (builds' = RemoveAt(builds, i) /\ Len(grids') = Len(grids) + 1)
          => VolumeIsColumnSum(builds[i], grids'[Len(grids')],
                               RetainedPositions(builds[i]))]_vars

\* C29: the displacement calculateAdvancedFaultInfluence returns is bounded
\* by the capped influence it returns: influence <= 1 and |displacement| <=
\* (amplitude / 2) * influence (to the hundredth of a unit the model
\* keeps), so at most amplitude / 2 = 30 units.
C29_DisplacementBoundedByInfluence ==
    lastCall.fn = "calculateAdvancedFaultInfluence"
      => /\ lastCall.value.influence <= InfluenceScale
         /\ 2 * Abs(lastCall.value.displacement) * InfluenceScale
              <= DisplacementAmplitude * TicksPerUnit * lastCall.value.influence
                   + 2 * InfluenceScale
         /\ 2 * Abs(lastCall.value.displacement)
              <= DisplacementAmplitude * TicksPerUnit

\* C30: the project index holds at most one entry for each stored project
\* name: saving under the name of a saved project updates that project in
\* place and adds no second entry.
C30_OneIndexEntryPerName ==
    \A i, j \in 1..Len(localStorage.index) :
        localStorage.index[i].name = localStorage.index[j].name => i = j
====
